---- MODULE Spec2Model ----
(***************************************************************************)
(* Model of the annotation repository of the TKD annotation dashboard      *)
(* (data_manager.py) and of the dashboard handlers that drive it (app.py). *)
(*                                                                         *)
(* The persisted state of one video is three files in ANNOTATIONS_DIR:     *)
(* <video>_annotations.json, its .json.bak sidecar and the .json.tmp file  *)
(* save_annotations writes before it replaces the annotation file; beside  *)
(* them the copy of the annotation file shipped with the repository and    *)
(* the match registry _matches.json.  A file is a sequence of chunks of    *)
(* text; json.load succeeds on it exactly when it holds all the chunks of  *)
(* one json.dump.                                                          *)
(***************************************************************************)
EXTENDS Integers, Sequences, FiniteSets, TLC

VARIABLES fs, last, sess

vars == <<fs, last, sess>>

(***************************************************************************)
(* Bounds of the model.                                                    *)
(***************************************************************************)
\* most records a video's collection grows to through add_annotation
MaxAnnotations == 2
\* number of write() calls one json.dump of a document is flushed in
NChunks == 2
\* handler runs of one session in the step-by-step specifications
MaxCalls == 2

VIDEO == "match01"

\* Python's None
Null == "<null>"

(***************************************************************************)
(* Dictionaries: a dict is a function on its set of keys.                  *)
(***************************************************************************)
\* dict.get(k, default)
Get(d, k, default) == IF k \in DOMAIN d THEN d[k] ELSE default

\* d[k] = v
SetKey(d, k, v) == [x \in (DOMAIN d) \cup {k} |-> IF x = k THEN v ELSE d[x]]

(***************************************************************************)
(* constants.py                                                            *)
(***************************************************************************)
TECHNIQUE_CLASSES ==
    <<"dollyo_chagi", "ap_chagi", "yeop_chagi", "dwit_chagi", "naeryo_chagi",
      "dwi_huryeo_chagi", "momtong_jireugi", "cut_kick", "block_defense",
      "neutral_stance">>

\* TECHNIQUE_NAMES_REVERSE.get(technique, 9); class ids start at 0
TechniqueId(technique) ==
    IF \E i \in 1..Len(TECHNIQUE_CLASSES) : TECHNIQUE_CLASSES[i] = technique
    THEN (CHOOSE i \in 1..Len(TECHNIQUE_CLASSES) : TECHNIQUE_CLASSES[i] = technique) - 1
    ELSE 9

(***************************************************************************)
(* Files.  A file that exists holds the text written to it so far, as a    *)
(* sequence of runs: run [doc, parts] is the pieces parts (in order) of    *)
(* the text json.dump produces for doc.  json.dump flushes that text in    *)
(* NChunks pieces, numbered 1..NChunks.                                    *)
(***************************************************************************)
NoFile == [exists |-> FALSE, runs |-> <<>>]

\* open(path, "w"): created or truncated
Truncated == [exists |-> TRUE, runs |-> <<>>]

\* the bytes a write past the end of a truncated file leaves in between
HOLE == [hole |-> TRUE]

\* the pieces of a file one by one, each with the document it belongs to
RECURSIVE Pieces(_)
Pieces(runs) ==
    IF runs = <<>> THEN <<>>
    ELSE [i \in 1..Len(runs[1].parts) |-> [doc |-> runs[1].doc, part |-> runs[1].parts[i]]]
             \o Pieces(Tail(runs))

\* the runs of a sequence of pieces
RECURSIVE Runs(_)
Runs(pieces) ==
    IF pieces = <<>> THEN <<>>
    ELSE LET rest == Runs(Tail(pieces))
         IN  IF rest # <<>> /\ rest[1].doc = pieces[1].doc
             THEN <<[doc |-> pieces[1].doc, parts |-> <<pieces[1].part>> \o rest[1].parts]>>
                      \o Tail(rest)
             ELSE <<[doc |-> pieces[1].doc, parts |-> <<pieces[1].part>>]>> \o rest

\* the complete text of json.dump(doc)
Dump(doc) == [exists |-> TRUE, runs |-> <<[doc |-> doc, parts |-> [i \in 1..NChunks |-> i]]>>]

(***************************************************************************)
(* The text of a document.  json.dump writes a document as a sequence of   *)
(* tokens and json.load rebuilds the value from them.  A token is          *)
(* [t, s, d]: t its kind, s the text of a key, a string or a float, d the  *)
(* decimal digits of an int.  The model tells a value's Python type from   *)
(* the key it is stored under.                                             *)
(***************************************************************************)
\* keys whose value is an int
IntKeys == {"start_frame", "end_frame", "technique_id", "num_annotations", "part"}

\* keys whose value is a float, held as its repr
FloatKeys == {"confidence"}

\* keys whose value is a list of dicts
ListKeys == {"annotations", "videos"}

\* keys whose value is a dict
DictKeys == {}

Token(t, s, d) == [t |-> t, s |-> s, d |-> d]

\* the decimal digits of a natural number, most significant first
RECURSIVE Digits(_)
Digits(n) == IF n < 10 THEN <<n>> ELSE Append(Digits(n \div 10), n % 10)

\* int() of a sequence of decimal digits
RECURSIVE Number(_)
Number(d) ==
    IF d = <<>> THEN 0 ELSE 10 * Number(SubSeq(d, 1, Len(d) - 1)) + d[Len(d)]

\* mutant: None is written the way str() prints it
JsonScalarNoneAsStr(k, v) ==
    IF k \in IntKeys THEN Token("int", "", Digits(v))
    ELSE IF k \in FloatKeys THEN Token("float", v, <<>>)
    ELSE IF v = Null THEN Token("string", "None", <<>>)
    ELSE Token("string", v, <<>>)

\* the token json.dump writes for an int, a float, None or a str
JsonScalar(k, v) ==
    IF k \in IntKeys THEN Token("int", "", Digits(v))
    ELSE IF k \in FloatKeys THEN Token("float", v, <<>>)
    ELSE IF v = Null THEN Token("null", "", <<>>)
    ELSE Token("string", v, <<>>)

RECURSIVE JsonMembers(_, _), JsonItems(_)

\* json.dump of a dict
JsonObject(d) == <<Token("{", "", <<>>)>> \o JsonMembers(d, DOMAIN d) \o <<Token("}", "", <<>>)>>

\* json.dump of the value stored under key k
JsonValue(k, v) ==
    IF k \in ListKeys
    THEN <<Token("[", "", <<>>)>> \o JsonItems(v) \o <<Token("]", "", <<>>)>>
    ELSE IF k \in DictKeys THEN JsonObject(v)
    ELSE <<JsonScalar(k, v)>>

\* the members of a dict, each a key and its value
JsonMembers(d, keys) ==
    IF keys = {} THEN <<>>
    ELSE LET k == CHOOSE x \in keys : TRUE
         IN  <<Token("key", k, <<>>)>> \o JsonValue(k, d[k]) \o JsonMembers(d, keys \ {k})

\* the items of a list of dicts
JsonItems(list) ==
    IF list = <<>> THEN <<>> ELSE JsonObject(Head(list)) \o JsonItems(Tail(list))

RECURSIVE LoadValue(_, _), LoadMembers(_, _, _), LoadItems(_, _, _)

\* json.load of the value that starts at token i: the value and the place after it
LoadValue(toks, i) ==
    LET tok == toks[i]
    IN  IF tok.t = "{" THEN LoadMembers(toks, i + 1, <<>>)
        ELSE IF tok.t = "[" THEN LoadItems(toks, i + 1, <<>>)
        ELSE IF tok.t = "int" THEN [v |-> Number(tok.d), next |-> i + 1]
        ELSE IF tok.t = "null" THEN [v |-> Null, next |-> i + 1]
        ELSE [v |-> tok.s, next |-> i + 1]

LoadMembers(toks, i, acc) ==
    IF toks[i].t = "}" THEN [v |-> acc, next |-> i + 1]
    ELSE LET r == LoadValue(toks, i + 1)
         IN  LoadMembers(toks, r.next, SetKey(acc, toks[i].s, r.v))

LoadItems(toks, i, acc) ==
    IF toks[i].t = "]" THEN [v |-> acc, next |-> i + 1]
    ELSE LET r == LoadValue(toks, i)
         IN  LoadItems(toks, r.next, Append(acc, r.v))

\* json.loads(json.dumps(doc)) of a dict
JsonRoundTrip(doc) == LoadValue(JsonObject(doc), 1).v

\* json.dump of the dict of match groups: its keys in the order of the dict
RECURSIVE JsonEntries(_)
JsonEntries(matches) ==
    IF matches = <<>> THEN <<>>
    ELSE <<Token("key", Head(matches)["match_name"], <<>>)>>
             \o JsonObject(Head(matches)["mdata"]) \o JsonEntries(Tail(matches))

JsonMatches(matches) ==
    <<Token("{", "", <<>>)>> \o JsonEntries(matches) \o <<Token("}", "", <<>>)>>

\* json.load of the members of the dict of match groups, from token i on
RECURSIVE LoadEntries(_, _, _)
LoadEntries(toks, i, acc) ==
    IF toks[i].t = "}" THEN acc
    ELSE LET r == LoadValue(toks, i + 1)
         IN  LoadEntries(toks, r.next, Append(acc, [match_name |-> toks[i].s, mdata |-> r.v]))

\* json.loads(json.dumps(matches)) of the dict of match groups
MatchesRoundTrip(matches) == LoadEntries(JsonMatches(matches), 2, <<>>)

\* whether json.load accepts the file's text
IsComplete(f) ==
    /\ f.exists
    /\ Len(f.runs) = 1
    /\ f.runs[1].doc # HOLE
    /\ f.runs[1].parts = [i \in 1..NChunks |-> i]

\* json.load(f) of a complete file: the document whose text the file holds
\* (JsonRoundTrip is what json.load makes of that text)
Parse(f) == f.runs[1].doc

\* f.write(piece off + 1 of doc) at offset off (counted in pieces) of an open file
WriteAt(f, off, doc) ==
    LET old == Pieces(f.runs)
        n == IF Len(old) > off + 1 THEN Len(old) ELSE off + 1
    IN  [exists |-> TRUE,
         runs |-> Runs([i \in 1..n |->
                          IF i = off + 1 THEN [doc |-> doc, part |-> off + 1]
                          ELSE IF i <= Len(old) THEN old[i]
                          ELSE [doc |-> HOLE, part |-> 0]])]

(***************************************************************************)
(* load_annotations                                                        *)
(***************************************************************************)
\* datetime.now().isoformat() at the load of a video with no annotation file
LOAD_TIME == "t0"

\* mutant: the structure of the first format version
EmptyDataV1 ==
    [version |-> "1.0", created_at |-> LOAD_TIME, num_annotations |-> 0,
     annotations |-> <<>>]

\* lines 122-123
EmptyData ==
    [version |-> "1.1", created_at |-> LOAD_TIME, num_annotations |-> 0,
     annotations |-> <<>>]

\* json.load raises on a file that is not one complete document
LoadFails(f) == f.exists /\ ~IsComplete(f)

\* lines 115-121: the file a load reads, the copy shipped under the repository's
\* data/annotations when ANNOTATIONS_DIR has no annotation file for the video
Source(f) == IF f.path.exists THEN f.path ELSE f.repo

\* lines 122-125, of the file Source gives
load_annotations(f) == IF ~f.exists THEN EmptyData ELSE Parse(f)

Annotations(data) == Get(data, "annotations", <<>>)

(***************************************************************************)
(* save_annotations, one step at a time                                    *)
(***************************************************************************)
\* the functions of this section take the files of the video: path, bak, tmp and
\* the repository's copy repo
\* mutant: the backup is made only when there is none yet
BackupOnce(f) == IF f.path.exists /\ ~f.bak.exists THEN [f EXCEPT !.bak = f.path] ELSE f

\* shutil.copy2(path, backup) when path exists
Backup(f) == IF f.path.exists THEN [f EXCEPT !.bak = f.path] ELSE f

\* mutant: the metadata field is left as the caller's data carried it
WithCountStale(data) == data

\* annotations_data["num_annotations"] = len(annotations_data.get("annotations", []))
WithCount(data) == SetKey(data, "num_annotations", Len(Annotations(data)))

\* mutant: the annotation file itself is opened for writing
OpenInPlace(f) == [f EXCEPT !.tmp = Truncated, !.path = Truncated]

\* open(tmp, "w")
OpenTmp(f) == [f EXCEPT !.tmp = Truncated]

\* mutant: the temporary file is moved onto the backup
MoveOntoBackup(f) == [f EXCEPT !.bak = f.tmp, !.tmp = NoFile]

\* shutil.move(tmp, path): os.rename within ANNOTATIONS_DIR
Move(f) == [f EXCEPT !.path = f.tmp, !.tmp = NoFile]

RECURSIVE WriteFrom(_, _, _)
WriteFrom(f, doc, off) ==
    IF off >= NChunks THEN f
    ELSE WriteFrom([f EXCEPT !.tmp = WriteAt(f.tmp, off, doc)], doc, off + 1)

\* the whole of save_annotations, uninterrupted
save_annotations(f, data) == Move(WriteFrom(OpenTmp(Backup(f)), WithCount(data), 0))

(***************************************************************************)
(* add_annotation                                                          *)
(***************************************************************************)
\* mutant: the fighter colour is left out of the comparison
SameEventAnyColor(ann, start_frame, end_frame, fighter_color) ==
    /\ "start_frame" \in DOMAIN ann /\ ann["start_frame"] = start_frame
    /\ "end_frame" \in DOMAIN ann /\ ann["end_frame"] = end_frame

\* the test of the three identity fields used by add, delete and find
SameEvent(ann, start_frame, end_frame, fighter_color) ==
    /\ "start_frame" \in DOMAIN ann /\ ann["start_frame"] = start_frame
    /\ "end_frame" \in DOMAIN ann /\ ann["end_frame"] = end_frame
    /\ "fighter_color" \in DOMAIN ann /\ ann["fighter_color"] = fighter_color

\* mutant: the scan starts at the second record
ExistingIdxSkipFirst(annotations, start_frame, end_frame, fighter_color) ==
    LET hits == {i \in 2..Len(annotations) :
                    /\ annotations[i]["start_frame"] = start_frame
                    /\ annotations[i]["end_frame"] = end_frame
                    /\ annotations[i]["fighter_color"] = fighter_color}
    IN  IF hits = {} THEN 0 ELSE CHOOSE i \in hits : \A j \in hits : i <= j

\* existing_idx: the first matching position, 0 for None
ExistingIdx(annotations, start_frame, end_frame, fighter_color) ==
    LET hits == {i \in 1..Len(annotations) :
                    SameEvent(annotations[i], start_frame, end_frame, fighter_color)}
    IN  IF hits = {} THEN 0 ELSE CHOOSE i \in hits : \A j \in hits : i <= j

EventStart(event) == Get(event, "start_frame", 0)

EventEnd(event) == Get(event, "end_frame", 0)

FighterColor(event, corrections) ==
    Get(corrections, "fighter_color", Get(event, "fighter_color", "unknown"))

Technique(event, corrections) ==
    Get(corrections, "technique", Get(event, "technique", "neutral_stance"))

\* f"{video_stem}_{fighter_color}_{start_frame}_{end_frame}_{uuid.uuid4().hex[:8]}"
NewAnnotationId(video_stem, fighter_color, start_frame, end_frame, hex) ==
    video_stem \o "_" \o fighter_color \o "_" \o ToString(start_frame)
        \o "_" \o ToString(end_frame) \o "_" \o hex

\* mutant: a fresh identifier on every call
AnnotationIdFresh(annotations, idx, video_stem, fighter_color, start_frame, end_frame, hex) ==
    NewAnnotationId(video_stem, fighter_color, start_frame, end_frame, hex)

\* the identifier the stored record gets
AnnotationIdFor(annotations, idx, video_stem, fighter_color, start_frame, end_frame, hex) ==
    IF idx # 0 THEN Get(annotations[idx], "annotation_id", "")
    ELSE NewAnnotationId(video_stem, fighter_color, start_frame, end_frame, hex)

\* the annotation dict, with its identifier filled in
BuildAnnotation(annotations, idx, event, corrections, annotated_by, hex, now) ==
    [video_path |-> VIDEO \o ".mp4",
     start_frame |-> EventStart(event),
     end_frame |-> EventEnd(event),
     fighter_color |-> FighterColor(event, corrections),
     technique |-> Technique(event, corrections),
     technique_id |-> TechniqueId(Technique(event, corrections)),
     target_zone |-> Get(corrections, "target_zone", Get(event, "target_zone", "trunk")),
     annotator |-> IF idx # 0 THEN "verified" ELSE "manual",
     source |-> "confirmed_" \o Get(event, "classifier_tier", "rule_based"),
     confidence |-> "1.0",
     annotated_by |-> annotated_by,
     notes |-> Get(corrections, "notes", ""),
     created_at |-> now,
     annotation_id |-> AnnotationIdFor(annotations, idx, VIDEO,
                           FighterColor(event, corrections),
                           EventStart(event), EventEnd(event), hex),
     attitude |-> Get(corrections, "attitude", Null),
     guard_stance |-> Get(corrections, "guard_stance", Null),
     role |-> Get(corrections, "role", Null),
     action_type |-> Get(corrections, "action_type", Null),
     leg_used |-> Get(corrections, "leg_used", Null),
     scoring_value |-> Get(corrections, "scoring_value", Null),
     penalty |-> Get(corrections, "penalty", Null),
     scoreboard_red |-> Get(corrections, "scoreboard_red", Null),
     scoreboard_blue |-> Get(corrections, "scoreboard_blue", Null),
     scoreboard_round |-> Get(corrections, "scoreboard_round", Null),
     match_name |-> Get(corrections, "match_name", Null),
     video_part |-> Get(corrections, "video_part", Null)]

\* mutant: the record is appended whether or not the key is stored
PutAnnotationAppended(annotations, idx, annotation) == Append(annotations, annotation)

\* mutant: the old record is removed and the new one appended
PutAnnotationAtEnd(annotations, idx, annotation) ==
    IF idx # 0
    THEN Append(SubSeq(annotations, 1, idx - 1)
                    \o SubSeq(annotations, idx + 1, Len(annotations)), annotation)
    ELSE Append(annotations, annotation)

\* annotations[existing_idx] = annotation, or annotations.append(annotation)
PutAnnotation(annotations, idx, annotation) ==
    IF idx # 0 THEN [annotations EXCEPT ![idx] = annotation]
    ELSE Append(annotations, annotation)

\* mutant: a dimension the corrections leave out keeps the stored record's value
AddResultMerged(data, event, corrections, annotated_by, hex, now) ==
    LET annotations == Annotations(data)
        idx == ExistingIdx(annotations, EventStart(event), EventEnd(event),
                           FighterColor(event, corrections))
        built == BuildAnnotation(annotations, idx, event, corrections,
                                 annotated_by, hex, now)
        annotation ==
            IF idx = 0 THEN built
            ELSE [f \in DOMAIN built |->
                     IF f \in {"attitude", "guard_stance", "role", "action_type",
                               "leg_used", "scoring_value", "penalty"}
                            /\ built[f] = Null
                     THEN Get(annotations[idx], f, Null) ELSE built[f]]
    IN  [data |-> SetKey(data, "annotations", PutAnnotation(annotations, idx, annotation)),
         id |-> annotation.annotation_id,
         created |-> idx = 0]

\* lines 161-221: the data handed to save_annotations and the returned id
AddResult(data, event, corrections, annotated_by, hex, now) ==
    LET annotations == Annotations(data)
        idx == ExistingIdx(annotations, EventStart(event), EventEnd(event),
                           FighterColor(event, corrections))
        annotation == BuildAnnotation(annotations, idx, event, corrections,
                                      annotated_by, hex, now)
    IN  [data |-> SetKey(data, "annotations", PutAnnotation(annotations, idx, annotation)),
         id |-> annotation.annotation_id,
         created |-> idx = 0]

(***************************************************************************)
(* delete_annotation, get_annotation_for_event                             *)
(***************************************************************************)
\* the list comprehension of lines 233-238
Remaining(annotations, start_frame, end_frame, fighter_color) ==
    LET Keep(a) == ~SameEvent(a, start_frame, end_frame, fighter_color)
    IN  SelectSeq(annotations, Keep)

\* mutant: len(annotations) <= original_len
DeleteResultAlways(data, start_frame, end_frame, fighter_color) ==
    [removed |-> TRUE,
     data |-> SetKey(data, "annotations",
                     Remaining(Annotations(data), start_frame, end_frame, fighter_color))]

\* lines 229-244: whether a save happens, and with what data
DeleteResult(data, start_frame, end_frame, fighter_color) ==
    LET annotations == Annotations(data)
        rest == Remaining(annotations, start_frame, end_frame, fighter_color)
    IN  [removed |-> Len(rest) < Len(annotations),
         data |-> SetKey(data, "annotations", rest)]

\* the first matching record in a one-element sequence, <<>> for None
get_annotation_for_event(data, start_frame, end_frame, fighter_color) ==
    LET annotations == Annotations(data)
        idx == ExistingIdx(annotations, start_frame, end_frame, fighter_color)
    IN  IF idx = 0 THEN <<>> ELSE <<annotations[idx]>>

(***************************************************************************)
(* get_annotation_stats.  progress_pct, a float with one decimal, is held  *)
(* in tenths of a percent: 33.3 is 333.                                    *)
(***************************************************************************)
\* round(num / den * 100, 1) in tenths, ties to the even tenth
RoundPct(num, den) ==
    LET q == (num * 1000) \div den
        r == (num * 1000) % den
    IN  IF 2 * r > den THEN q + 1
        ELSE IF 2 * r < den THEN q
        ELSE IF q % 2 = 0 THEN q ELSE q + 1

\* max(a, b)
Max(a, b) == IF a >= b THEN a ELSE b

\* ann.get("annotated_by", "Unknown") or "Unknown"
Who(ann) ==
    LET who == Get(ann, "annotated_by", "Unknown")
    IN  IF who = "" \/ who = Null THEN "Unknown" ELSE who

\* ann.get("technique", "unknown")
Tech(ann) == Get(ann, "technique", "unknown")

\* by_annotator after the counting loop of lines 266-270
ByAnnotator(annotations) ==
    [k \in {Who(annotations[i]) : i \in 1..Len(annotations)} |->
        Cardinality({i \in 1..Len(annotations) : Who(annotations[i]) = k})]

\* by_technique after the counting loop of lines 266-270
ByTechnique(annotations) ==
    [k \in {Tech(annotations[i]) : i \in 1..Len(annotations)} |->
        Cardinality({i \in 1..Len(annotations) : Tech(annotations[i]) = k})]

\* mutant: the number of annotations is capped at the number of events
StatsCapped(data, total_events) ==
    LET annotations == Annotations(data)
        n == IF Len(annotations) > total_events THEN total_events ELSE Len(annotations)
    IN  [total_events |-> total_events,
         annotated |-> n,
         remaining |-> Max(0, total_events - n),
         progress_pct |-> RoundPct(n, Max(1, total_events)),
         by_annotator |-> ByAnnotator(annotations),
         by_technique |-> ByTechnique(annotations)]

\* lines 262-279, of the data load_annotations returned
get_annotation_stats(data, total_events) ==
    LET annotations == Annotations(data)
    IN  [total_events |-> total_events,
         annotated |-> Len(annotations),
         remaining |-> Max(0, total_events - Len(annotations)),
         progress_pct |-> RoundPct(Len(annotations), Max(1, total_events)),
         by_annotator |-> ByAnnotator(annotations),
         by_technique |-> ByTechnique(annotations)]

(***************************************************************************)
(* Match groups.  The dict of _matches.json keeps its keys in the order    *)
(* they were inserted, in memory and in the file: it is a sequence of      *)
(* entries [match_name, mdata], mdata the dict of red_name, blue_name and  *)
(* videos.  The file holds the document [matches |-> that sequence].       *)
(***************************************************************************)
\* mutant: the file is not read
LoadMatchesEmpty(f) == <<>>

\* load_matches
load_matches(f) == IF f.exists THEN Parse(f)["matches"] ELSE <<>>

\* the text save_matches writes
DumpMatches(matches) == Dump([matches |-> matches])

\* the position of a key of the dict, 0 if it is not in it
MatchIdx(matches, match_name) ==
    LET hits == {i \in 1..Len(matches) : matches[i]["match_name"] = match_name}
    IN  IF hits = {} THEN 0 ELSE CHOOSE i \in hits : TRUE

\* the first entry of a videos list that is the video, 0 if there is none
VideoIdx(videos, video_stem) ==
    LET hits == {i \in 1..Len(videos) : videos[i]["video_stem"] = video_stem}
    IN  IF hits = {} THEN 0 ELSE CHOOSE i \in hits : \A j \in hits : i <= j

\* v.get("part", 1)
PartOf(v) == Get(v, "part", 1)

\* one more entry put into a sorted list, behind the entries that are not greater
InsertByPart(sorted, v) ==
    LET n == Cardinality({i \in 1..Len(sorted) : PartOf(sorted[i]) <= PartOf(v)})
    IN  SubSeq(sorted, 1, n) \o <<v>> \o SubSeq(sorted, n + 1, Len(sorted))

\* mutant: the list is left in the order of insertion
Unsorted(videos) == videos

\* videos.sort(key=lambda v: v.get("part", 1)): a stable sort
RECURSIVE SortByPart(_)
SortByPart(videos) ==
    IF videos = <<>> THEN <<>>
    ELSE InsertByPart(SortByPart(SubSeq(videos, 1, Len(videos) - 1)), videos[Len(videos)])

\* mutant: the name given replaces the stored one, empty or not
NewNameAlways(old, name) == name

\* lines 334-337: the stored name after a call that gives name
NewName(old, name) == IF name # "" THEN name ELSE old

\* lines 340-348: the videos list with the video's part set or the video appended
PutVideo(videos, video_stem, part) ==
    IF VideoIdx(videos, video_stem) # 0
    THEN [videos EXCEPT ![VideoIdx(videos, video_stem)] = SetKey(@, "part", part)]
    ELSE Append(videos, [video_stem |-> video_stem, part |-> part])

\* lines 325-352: the dict handed to save_matches
MatchGroupResult(matches, match_name, video_stem, part, red_name, blue_name) ==
    LET created ==
            IF MatchIdx(matches, match_name) = 0
            THEN Append(matches,
                        [match_name |-> match_name,
                         mdata |-> [red_name |-> red_name, blue_name |-> blue_name,
                                    videos |-> <<>>]])
            ELSE matches
        i == MatchIdx(created, match_name)
        mdata == created[i]["mdata"]
    IN  [created EXCEPT ![i] =
            [match_name |-> match_name,
             mdata |-> [red_name |-> NewName(mdata["red_name"], red_name),
                        blue_name |-> NewName(mdata["blue_name"], blue_name),
                        videos |-> SortByPart(PutVideo(mdata["videos"], video_stem, part))]]]

\* the groups that list the video, in the order of the dict
GroupsOf(matches, video_stem) ==
    {i \in 1..Len(matches) : VideoIdx(Get(matches[i]["mdata"], "videos", <<>>), video_stem) # 0}

\* lines 308-319: the dict returned in a one-element sequence, <<>> for None
get_match_for_video(matches, video_stem) ==
    LET hits == GroupsOf(matches, video_stem)
    IN  IF hits = {} THEN <<>>
        ELSE LET i == CHOOSE h \in hits : \A j \in hits : h <= j
                 mdata == matches[i]["mdata"]
                 videos == Get(mdata, "videos", <<>>)
             IN  <<[match_name |-> matches[i]["match_name"],
                    video_part |-> PartOf(videos[VideoIdx(videos, video_stem)]),
                    red_name |-> Get(mdata, "red_name", ""),
                    blue_name |-> Get(mdata, "blue_name", ""),
                    videos |-> videos]>>

(***************************************************************************)
(* The combined statistics of a match (page_progress, "Full Match").  The  *)
(* files of this section also hold other, the annotation file of the video *)
(* that is not VIDEO, and techniques, the number of events each video's    *)
(* _techniques.json lists (0 when there is no such file).                   *)
(***************************************************************************)
\* round(num / den * 100), ties to the even integer
RoundWhole(num, den) ==
    LET q == (num * 100) \div den
        r == (num * 100) % den
    IN  IF 2 * r > den THEN q + 1
        ELSE IF 2 * r < den THEN q
        ELSE IF q % 2 = 0 THEN q ELSE q + 1

\* the file load_annotations(mv_stem) reads
AnnotationFile(f, video_stem) == IF video_stem = VIDEO THEN Source(f) ELSE f.other

\* len(load_techniques(mv_stem))
NumTechniques(f, video_stem) == f.techniques[video_stem]

\* lines 1229-1231: the annotations of one listed video, tagged
Tagged(f, mv) ==
    LET annotations == Annotations(load_annotations(AnnotationFile(f, mv["video_stem"])))
    IN  [i \in 1..Len(annotations) |->
            SetKey(SetKey(annotations[i], "_part", PartOf(mv)), "_video", mv["video_stem"])]

\* mutant: only the video shown contributes its annotations
CombinedAnnsOfVideo(f, match_videos) ==
    IF \E i \in 1..Len(match_videos) : match_videos[i]["video_stem"] = VIDEO
    THEN Tagged(f, match_videos[CHOOSE i \in 1..Len(match_videos) :
                                   match_videos[i]["video_stem"] = VIDEO])
    ELSE <<>>

\* lines 1223-1232: combined_anns
RECURSIVE CombinedAnns(_, _)
CombinedAnns(f, match_videos) ==
    IF match_videos = <<>> THEN <<>>
    ELSE Tagged(f, Head(match_videos)) \o CombinedAnns(f, Tail(match_videos))

\* lines 1223-1227: combined_events
RECURSIVE CombinedEvents(_, _)
CombinedEvents(f, match_videos) ==
    IF match_videos = <<>> THEN 0
    ELSE NumTechniques(f, Head(match_videos)["video_stem"])
             + CombinedEvents(f, Tail(match_videos))

\* lines 1241-1246: one line of the per-part breakdown
PartLine(f, combined_anns, mv) ==
    LET n_ann == Cardinality({j \in 1..Len(combined_anns) :
                                 Get(combined_anns[j], "_video", Null) = mv["video_stem"]})
        n_tech == NumTechniques(f, mv["video_stem"])
    IN  [video_stem |-> mv["video_stem"], part_n |-> PartOf(mv), n_ann |-> n_ann,
         n_tech |-> n_tech, ppct |-> RoundWhole(n_ann, Max(1, n_tech))]

\* lines 1220-1260: what "Full Match (All Parts)" shows
combined_stats(f, match_videos) ==
    LET combined_anns == CombinedAnns(f, match_videos)
        combined_events == CombinedEvents(f, match_videos)
    IN  [match_videos |-> match_videos,
         annotated |-> Len(combined_anns),
         combined_events |-> combined_events,
         comb_pct |-> RoundPct(Len(combined_anns), Max(1, combined_events)),
         parts |-> [i \in 1..Len(match_videos) |->
                       PartLine(f, combined_anns, match_videos[i])],
         combined_by_tech |-> ByTechnique(combined_anns)]

(***************************************************************************)
(* The defaults of a fighter's panel (_render_fighter_layers) for the      *)
(* three dimensions linked to the other fighter.  A penalty, the one str   *)
(* the code searches for a marker, is held as the sequence of its words;   *)
(* None is the empty sequence.                                             *)
(***************************************************************************)
\* DIMENSION_OPTIONS, the dimensions with a linked default
DIMENSION_OPTIONS ==
    [attitude |-> <<"Forward", "Stationary", "Backward">>,
     role |-> <<"Attack", "Contre Attack", "Defence">>,
     scoring_value |-> <<"No score", "1", "2", "3", "4", "6",
                         "-1", "-2", "-3", "-4", "-6">>]

\* DIMENSION_OPTIONS["penalty"]
PENALTY_OPTIONS ==
    <<<<"None">>,
      <<"Fall", "(-1)">>, <<"Out", "(-1)">>, <<"Avoid", "(-1)">>, <<"Grab", "(-1)">>,
      <<"After", "Kalyo", "(-1)">>, <<"Hit", "below", "waist", "(-1)">>,
      <<"Kicking", "falling", "opponent", "(-1)">>, <<"Misconduct", "(-1)">>,
      <<"Fall", "10", "sec", "(-2)">>, <<"Out", "10", "sec", "(-2)">>,
      <<"Avoid", "10", "sec", "(-2)">>,
      <<"Apal", "min", "foug">>>>

\* mutant: the role opposite to an attack is the defence
RoleMirrorDefence ==
    [x \in {"Attack", "Contre Attack", "Defence"} |->
        IF x = "Attack" THEN "Defence" ELSE "Attack"]

_ROLE_MIRROR ==
    [x \in {"Attack", "Contre Attack", "Defence"} |->
        IF x = "Attack" THEN "Contre Attack" ELSE "Attack"]

_ATTITUDE_MIRROR ==
    [x \in {"Forward", "Backward", "Stationary"} |->
        IF x = "Forward" THEN "Backward"
        ELSE IF x = "Backward" THEN "Forward" ELSE "Stationary"]

\* str(value).lower().replace("_", " "), of the strings of the model
Lower(value) ==
    CASE value = "Forward" -> "forward"
      [] value = "Stationary" -> "stationary"
      [] value = "Backward" -> "backward"
      [] value = "Attack" -> "attack"
      [] value = "Contre Attack" -> "contre attack"
      [] value = "contre_attack" -> "contre attack"
      [] value = "Defence" -> "defence"
      [] value = "No score" -> "no score"
      [] value = "Sideways" -> "sideways"
      [] OTHER -> value

\* a in b, of the lower-case strings of the model
IsIn(a, b) ==
    \/ a = b
    \/ <<a, b>> \in {<<"attack", "contre attack">>, <<"1", "-1">>, <<"2", "-2">>,
                     <<"3", "-3">>, <<"4", "-4">>, <<"6", "-6">>, <<"score", "no score">>}

\* _match_option(value, options)
_match_option(value, options) ==
    LET exact == {i \in 1..Len(options) : Lower(options[i]) = Lower(value)}
        partial == {i \in 1..Len(options) :
                       \/ IsIn(Lower(value), Lower(options[i]))
                       \/ IsIn(Lower(options[i]), Lower(value))}
    IN  IF value = Null \/ value = "" THEN Null
        ELSE IF exact # {} THEN options[CHOOSE i \in exact : \A j \in exact : i <= j]
        ELSE IF partial # {} THEN options[CHOOSE i \in partial : \A j \in partial : i <= j]
        ELSE Null

\* marker in penalty_str
HasMarker(penalty_str, marker) ==
    \E i \in 1..Len(penalty_str) : penalty_str[i] = marker

\* mutant: the marker's own sign is kept
PenaltyPtsSigned(penalty_str) ==
    IF penalty_str = <<>> \/ penalty_str = <<"None">> THEN 0
    ELSE IF HasMarker(penalty_str, "(-2)") THEN -2
    ELSE IF HasMarker(penalty_str, "(+2)") THEN 2
    ELSE IF HasMarker(penalty_str, "(-1)") THEN -1
    ELSE IF HasMarker(penalty_str, "(+1)") THEN 1
    ELSE 0

\* _penalty_pts(penalty_str)
_penalty_pts(penalty_str) ==
    IF penalty_str = <<>> \/ penalty_str = <<"None">> THEN 0
    ELSE IF HasMarker(penalty_str, "(-2)") \/ HasMarker(penalty_str, "(+2)") THEN 2
    ELSE IF HasMarker(penalty_str, "(-1)") \/ HasMarker(penalty_str, "(+1)") THEN 1
    ELSE 0

\* line 818: src
PanelSource(existing_ann, event, is_active) ==
    IF existing_ann # <<>> THEN existing_ann[1]
    ELSE IF is_active THEN event
    ELSE [x \in {} |-> Null]

\* mutant: the role and attitude mirrors are applied to the active fighter too
LinkedDefaultsAnyFighter(src, is_active, other_att, other_role, other_pen) ==
    LET own_attitude == _match_option(Get(src, "attitude", Null), DIMENSION_OPTIONS.attitude)
        own_role == _match_option(Get(src, "role", Null), DIMENSION_OPTIONS.role)
        own_value == _match_option(Get(src, "scoring_value", Null),
                                   DIMENSION_OPTIONS.scoring_value)
    IN  [attitude |->
             IF own_attitude = Null /\ other_att # Null
             THEN Get(_ATTITUDE_MIRROR, other_att, Null) ELSE own_attitude,
         role |->
             IF own_role = Null /\ other_role # Null
             THEN Get(_ROLE_MIRROR, other_role, Null) ELSE own_role,
         scoring_value |->
             IF _penalty_pts(other_pen) > 0 /\ own_value = Null
             THEN ToString(_penalty_pts(other_pen)) ELSE own_value]

\* lines 835-839, 854-858 and 913-917: attitude_default, role_default and
\* value_default, given what the session holds of the other fighter's panel
LinkedDefaults(src, is_active, other_att, other_role, other_pen) ==
    LET own_attitude == _match_option(Get(src, "attitude", Null), DIMENSION_OPTIONS.attitude)
        own_role == _match_option(Get(src, "role", Null), DIMENSION_OPTIONS.role)
        own_value == _match_option(Get(src, "scoring_value", Null),
                                   DIMENSION_OPTIONS.scoring_value)
    IN  [attitude |->
             IF own_attitude = Null /\ ~is_active /\ other_att # Null
             THEN Get(_ATTITUDE_MIRROR, other_att, Null) ELSE own_attitude,
         role |->
             IF own_role = Null /\ ~is_active /\ other_role # Null
             THEN Get(_ROLE_MIRROR, other_role, Null) ELSE own_role,
         scoring_value |->
             IF _penalty_pts(other_pen) > 0 /\ own_value = Null
             THEN ToString(_penalty_pts(other_pen)) ELSE own_value]

(***************************************************************************)
(* Inputs of the handlers.                                                 *)
(***************************************************************************)
\* technique events of the video, as _techniques.json lists them
Events ==
    {[start_frame |-> 10, end_frame |-> 20, fighter_color |-> "red",
      technique |-> "dollyo_chagi", classifier_tier |-> "ml"],
     [start_frame |-> 10, end_frame |-> 30, fighter_color |-> "blue"]}

\* corrections dicts handed to add_annotation
CorrectionSets ==
    {[fighter_color |-> "blue", technique |-> "ap_chagi", attitude |-> "Forward",
      notes |-> "checked"],
     [x \in {} |-> Null]}

Annotators == {"Coach"}

\* values of uuid.uuid4().hex[:8]
HexValues == {"0a1b2c3d", "ffffffff"}

\* values of datetime.now().isoformat() during add_annotation
Times == {"t1"}

Colors == {"red", "blue"}

\* the corrections and uuid values of the specifications that follow a handler
\* step by step or restore uploaded files
PlainCorrections == {[x \in {} |-> Null]}

OneHex == {"0a1b2c3d"}

Frames == {<<EventStart(e), EventEnd(e)>> : e \in Events}

\* a record of an annotation file written by another tool
ExtRecord(start_frame, end_frame, fighter_color, id) ==
    [start_frame |-> start_frame, end_frame |-> end_frame,
     fighter_color |-> fighter_color, technique |-> "ap_chagi",
     annotated_by |-> "Coach", annotation_id |-> id]

\* parsed contents of uploaded files that are JSON objects
ExternalDocs ==
    {[version |-> "1.1", created_at |-> "t9", num_annotations |-> 7,
      annotations |-> <<ExtRecord(10, 20, "red", "ext_1"),
                        ExtRecord(10, 20, "red", "ext_2")>>],
     [version |-> "1.1", num_annotations |-> 5]}

\* what _render_fighter_layers returns for one fighter's panel: filled in, or
\* with nothing chosen
Panels(color) ==
    {[fighter_color |-> color, attitude |-> "Forward", guard_stance |-> Null,
      role |-> "Attack", action_type |-> Null, leg_used |-> Null,
      technique |-> "ap_chagi", target_zone |-> "trunk", scoring_value |-> Null,
      penalty |-> Null, notes |-> ""],
     [fighter_color |-> color, attitude |-> Null, guard_stance |-> Null,
      role |-> Null, action_type |-> Null, leg_used |-> Null,
      technique |-> Null, target_zone |-> "trunk", scoring_value |-> Null,
      penalty |-> Null, notes |-> ""]}

\* the events page_annotate steps through: the event of Events that carries no
\* technique and one whose fighter the detector could not tell
PageEvents ==
    {e \in Events : "technique" \notin DOMAIN e}
        \cup {[start_frame |-> 10, end_frame |-> 40, fighter_color |-> "unknown",
                  technique |-> "ap_chagi", classifier_tier |-> "ml"]}

\* values of total_events: len() of the video's list of technique events, which
\* page_select filters by start time first
TotalEvents == 0..Cardinality(Events) + 1

\* the match names typed into "Match name"
MatchNames == {"Final", "Semi"}

\* the videos list_videos returns
VideoStems == {"match01", "match02"}

\* values of the part of a video, of the options of "Part" (line 568)
Parts == {1, 2}

\* what is typed into the RED and the BLUE fighter field
FighterNames ==
    {[red_name |-> "", blue_name |-> ""],
     [red_name |-> "Kim", blue_name |-> "Lee"],
     [red_name |-> "Park", blue_name |-> "Lee"]}

\* a stored record with values for the linked dimensions
DimRecord(fighter_color, id, attitude, role, scoring_value) ==
    [start_frame |-> 10, end_frame |-> 20, fighter_color |-> fighter_color,
     technique |-> "ap_chagi", annotated_by |-> "Coach", annotation_id |-> id,
     attitude |-> attitude, role |-> role, scoring_value |-> scoring_value]

\* annotation files to restore: one as CONFIRM BOTH leaves the dimensions (an
\* option or None), one written by another tool
PanelDocs ==
    {[version |-> "1.1", created_at |-> "t9", num_annotations |-> 2,
      annotations |-> <<DimRecord("red", "ext_1", "Forward", "Attack", "2"),
                        DimRecord("blue", "ext_2", Null, Null, Null)>>],
     [version |-> "1.1", created_at |-> "t9", num_annotations |-> 1,
      annotations |-> <<DimRecord("blue", "ext_3", "Sideways", "contre_attack", "5")>>]}

\* what the session holds of the other fighter's attitude, role and penalty
OtherAttitudes == {Null, "Forward", "Stationary"}

OtherRoles == {Null, "Attack", "Contre Attack", "Defence"}

OtherPenalties ==
    {<<>>, <<"None">>, <<"Grab", "(-1)">>, <<"Fall", "10", "sec", "(-2)">>,
     <<"Apal", "min", "foug">>}

\* the other video of the match, as earlier sessions left it: the number of
\* events its _techniques.json lists and its annotation file
OtherVideos ==
    {[events |-> 0, file |-> NoFile],
     [events |-> 1, file |-> NoFile],
     [events |-> 1,
      file |-> Dump([version |-> "1.1", created_at |-> "t8", num_annotations |-> 1,
                     annotations |-> <<ExtRecord(10, 30, "blue", "other_1")>>])],
     [events |-> 1,
      file |-> Dump([version |-> "1.1", created_at |-> "t8", num_annotations |-> 2,
                     annotations |-> <<ExtRecord(10, 30, "blue", "other_1"),
                                       ExtRecord(10, 30, "red", "other_2")>>])]}

\* the copy of the video's annotation file under the repository's
\* data/annotations: none, a complete file, a file that is not JSON
RepoCopies ==
    {NoFile,
     Dump([version |-> "1.1", created_at |-> "t8", num_annotations |-> 1,
           annotations |-> <<ExtRecord(10, 30, "blue", "seed_1")>>]),
     Truncated}

\* uploaded files: not JSON, a JSON array, a JSON object
Uploads ==
    {[json |-> "invalid"], [json |-> "array"]}
        \cup {[json |-> "object", doc |-> d] : d \in ExternalDocs}

(***************************************************************************)
(* State.  fs: the files of the video (path, bak, tmp in ANNOTATIONS_DIR,   *)
(* repo the copy under the repository's data/annotations) and matches, the *)
(* file _matches.json.  last: the last handler call and what it returned.  *)
(* sess: the sessions executing a handler step by step (idle where         *)
(* handlers run uninterrupted).                                            *)
(***************************************************************************)
Sessions == {1, 2}

\* a handler call and its result: ok is the boolean a delete returned, for an add
\* whether a new record was appended, for a restore or a load whether it
\* succeeded; id is the annotation_id an add returned; found holds the record a
\* find returned, or the data a load returned
NoCall ==
    [op |-> "none", start_frame |-> 0, end_frame |-> 0, fighter_color |-> "",
     ok |-> FALSE, id |-> "", found |-> <<>>]

Call(op, start_frame, end_frame, fighter_color, ok, id, found) ==
    [op |-> op, start_frame |-> start_frame, end_frame |-> end_frame,
     fighter_color |-> fighter_color, ok |-> ok, id |-> id, found |-> found]

\* a session that is in no handler: pc is the place in the handler, data the
\* handler's annotations_data, fd and off the file its open file object writes to
\* and the offset it writes at, call the handler call being run or last returned,
\* before the annotation file as the handler loaded it
Idle ==
    [pc |-> "idle", data |-> EmptyData, off |-> 0, fd |-> "closed", call |-> NoCall,
     before |-> NoFile, calls |-> 0]

Init ==
    /\ fs = [path |-> NoFile, bak |-> NoFile, tmp |-> NoFile, repo |-> NoFile,
             matches |-> NoFile]
    /\ last = NoCall
    /\ sess = [s \in Sessions |-> Idle]

(***************************************************************************)
(* The handlers of data_manager.py, each run from its load to its return   *)
(* with no other session interleaved.                                      *)
(***************************************************************************)
add_annotation(event, corrections, annotated_by, hex, now) ==
    /\ ~LoadFails(Source(fs))
    /\ LET r == AddResult(load_annotations(Source(fs)), event, corrections,
                          annotated_by, hex, now)
       IN  /\ Len(Annotations(r.data)) <= MaxAnnotations
           /\ fs' = save_annotations(fs, r.data)
           /\ last' = Call("add", EventStart(event), EventEnd(event),
                           FighterColor(event, corrections), r.created, r.id, <<>>)
    /\ UNCHANGED sess

delete_annotation(start_frame, end_frame, fighter_color) ==
    /\ ~LoadFails(Source(fs))
    /\ LET r == DeleteResult(load_annotations(Source(fs)), start_frame, end_frame,
                             fighter_color)
       IN  /\ fs' = IF r.removed THEN save_annotations(fs, r.data) ELSE fs
           /\ last' = Call("delete", start_frame, end_frame, fighter_color,
                           r.removed, "", <<>>)
    /\ UNCHANGED sess

find_annotation(start_frame, end_frame, fighter_color) ==
    /\ ~LoadFails(Source(fs))
    /\ last' = Call("find", start_frame, end_frame, fighter_color, FALSE, "",
                    get_annotation_for_event(load_annotations(Source(fs)), start_frame,
                                             end_frame, fighter_color))
    /\ UNCHANGED <<fs, sess>>

\* "Upload / Restore Annotations" of page_select, for one uploaded file
restore_annotations(upload) ==
    /\ fs' = IF upload.json = "object" THEN save_annotations(fs, upload.doc)
             ELSE IF upload.json = "array" THEN Backup(fs)
             ELSE fs
    /\ last' = Call("restore", 0, 0, "", upload.json = "object", "", <<>>)
    /\ UNCHANGED sess

\* a page that shows the video's annotations (page_annotate, line 512)
LoadVideo ==
    /\ last' = Call("load", 0, 0, "", ~LoadFails(Source(fs)), "",
                    IF LoadFails(Source(fs)) THEN <<>>
                    ELSE <<load_annotations(Source(fs))>>)
    /\ UNCHANGED <<fs, sess>>

AddFrom(correctionSets, hexValues) ==
    \E event \in Events, corrections \in correctionSets, by \in Annotators,
       hex \in hexValues, now \in Times :
        add_annotation(event, corrections, by, hex, now)

Add == AddFrom(CorrectionSets, HexValues)

Delete == \E f \in Frames, c \in Colors : delete_annotation(f[1], f[2], c)

Find == \E f \in Frames, c \in Colors : find_annotation(f[1], f[2], c)

Restore == \E upload \in Uploads : restore_annotations(upload)

Next == Add \/ Delete \/ Find

\* one session, handlers uninterrupted, starting with no annotation file
Spec == Init /\ [][Next]_vars

NextRestore == AddFrom(PlainCorrections, OneHex) \/ Delete \/ Restore

\* the same with files restored through the upload form
SpecRestore == Init /\ [][NextRestore]_vars

\* Python's truth value of a str or None
Truthy(v) == v # Null /\ v # ""

\* lines 1034-1041: the panel's values and the scoreboard of the session; the
\* numbers of the scoreboard and the part are held as their digits
PanelCorrections(fdata) ==
    [k \in DOMAIN fdata \cup {"scoreboard_red", "scoreboard_blue", "scoreboard_round",
                              "match_name", "video_part"} |->
        IF k \in DOMAIN fdata THEN fdata[k]
        ELSE IF k = "scoreboard_round" THEN "R1"
        ELSE IF k = "match_name" THEN ""
        ELSE IF k = "video_part" THEN "1"
        ELSE "0"]

\* lines 1033-1047, for one fighter: the files after it
ConfirmOne(f, event, fdata, annotated_by, hex, now) ==
    IF Truthy(fdata["technique"]) \/ Truthy(fdata["role"]) \/ Truthy(fdata["attitude"])
    THEN save_annotations(f,
             AddResult(load_annotations(Source(f)),
                       SetKey(event, "fighter_color", fdata["fighter_color"]),
                       PanelCorrections(fdata), annotated_by, hex, now).data)
    ELSE f

\* the CONFIRM BOTH button of page_annotate (lines 1030-1047)
confirm_both(event, red_data, blue_data, annotated_by, hex, now) ==
    /\ ~LoadFails(Source(fs))
    /\ LET after == ConfirmOne(ConfirmOne(fs, event, red_data, annotated_by, hex, now),
                               event, blue_data, annotated_by, hex, now)
       IN  /\ Len(Annotations(load_annotations(Source(after)))) <= MaxAnnotations
           /\ fs' = after
    /\ last' = Call("confirm", EventStart(event), EventEnd(event),
                    Get(event, "fighter_color", "unknown"), TRUE, "", <<>>)
    /\ UNCHANGED sess

ConfirmBoth ==
    \E event \in Events, red_data \in Panels("red"), blue_data \in Panels("blue"),
       by \in Annotators, hex \in OneHex, now \in Times :
        confirm_both(event, red_data, blue_data, by, hex, now)

\* a page that shows the video's progress (lines 418 and 1139)
annotation_stats(total_events) ==
    /\ ~LoadFails(Source(fs))
    /\ last' = Call("stats", 0, 0, "", TRUE, "",
                    <<get_annotation_stats(load_annotations(Source(fs)), total_events)>>)
    /\ UNCHANGED <<fs, sess>>

Stats == \E total_events \in TotalEvents : annotation_stats(total_events)

NextStats == AddFrom(PlainCorrections, OneHex) \/ ConfirmBoth \/ Delete \/ Stats

\* upserts, CONFIRM BOTH and deletes of one session, and the progress the pages show
SpecStats == Init /\ [][NextStats]_vars

\* save_match_group, called by "Open" (line 436) and "Save match details"
\* (line 576); save_matches run to its end
save_match_group(match_name, video_stem, part, red_name, blue_name) ==
    /\ ~LoadFails(fs.matches)
    /\ fs' = [fs EXCEPT !.matches =
                 DumpMatches(MatchGroupResult(load_matches(fs.matches), match_name,
                                              video_stem, part, red_name, blue_name))]
    /\ last' = Call("save_match_group", 0, 0, "", TRUE, "",
                    <<[match_name |-> match_name, video_stem |-> video_stem,
                       part |-> part, red_name |-> red_name, blue_name |-> blue_name]>>)
    /\ UNCHANGED sess

\* get_match_for_video, called by page_annotate (line 543) and page_progress
match_for_video(video_stem) ==
    /\ ~LoadFails(fs.matches)
    /\ last' = Call("get_match_for_video", 0, 0, "", TRUE, "",
                    <<[video_stem |-> video_stem,
                       match |-> get_match_for_video(load_matches(fs.matches),
                                                     video_stem)]>>)
    /\ UNCHANGED <<fs, sess>>

SaveMatchGroup ==
    \E match_name \in MatchNames, video_stem \in VideoStems, part \in Parts,
       names \in FighterNames :
        save_match_group(match_name, video_stem, part, names.red_name, names.blue_name)

MatchForVideo == \E video_stem \in VideoStems : match_for_video(video_stem)

NextMatches == SaveMatchGroup \/ MatchForVideo

\* the match registry, from no _matches.json
SpecMatches == Init /\ [][NextMatches]_vars

\* one fighter's panel of page_annotate (lines 963-969), for the event shown
render_fighter_layers(event, color, other_att, other_role, other_pen) ==
    /\ ~LoadFails(Source(fs))
    /\ LET existing_ann ==
               get_annotation_for_event(load_annotations(Source(fs)),
                                        event["start_frame"], event["end_frame"], color)
           is_active == Get(event, "fighter_color", "unknown") = color
           src == PanelSource(existing_ann, event, is_active)
       IN  last' = Call("render", event["start_frame"], event["end_frame"], color,
                        is_active, "",
                        <<[src |-> [k \in {"attitude", "role", "scoring_value"} |->
                                       Get(src, k, Null)],
                           stored |-> [k \in {"attitude", "role", "scoring_value"} |->
                                          IF existing_ann = <<>> THEN Null
                                          ELSE Get(existing_ann[1], k, Null)],
                           other_role |-> other_role,
                           other_pen |-> other_pen,
                           defaults |-> LinkedDefaults(src, is_active, other_att,
                                                       other_role, other_pen)]>>)
    /\ UNCHANGED <<fs, sess>>

Render ==
    \E event \in Events, color \in Colors, other_att \in OtherAttitudes,
       other_role \in OtherRoles, other_pen \in OtherPenalties :
        render_fighter_layers(event, color, other_att, other_role, other_pen)

RestorePanelDoc ==
    \E doc \in PanelDocs : restore_annotations([json |-> "object", doc |-> doc])

NextPanel == RestorePanelDoc \/ Delete \/ Render

\* the panels of the events of a video whose annotations were restored
SpecPanel == Init /\ [][NextPanel]_vars

InitLoad ==
    /\ \E repo \in RepoCopies :
          fs = [path |-> NoFile, bak |-> NoFile, tmp |-> NoFile, repo |-> repo,
                matches |-> NoFile]
    /\ last = NoCall
    /\ sess = [s \in Sessions |-> Idle]

NextLoad == LoadVideo \/ AddFrom(PlainCorrections, OneHex) \/ Delete

\* a video that may have a copy of its annotation file in the repository
SpecLoad == InitLoad /\ [][NextLoad]_vars

\* line 690: fighter
Fighter(event) == Get(event, "fighter_color", "unknown")

\* lines 516-519: _is_annotated(evt) over the data loaded at line 512
_is_annotated(data, evt) ==
    \E i \in 1..Len(Annotations(data)) :
        SameEvent(Annotations(data)[i], EventStart(evt), EventEnd(evt), Fighter(evt))

\* a panel with the role chosen (or left at its mirrored default) and no technique
RolePanel(color) ==
    [fighter_color |-> color, attitude |-> Null, guard_stance |-> Null,
     role |-> "Contre Attack", action_type |-> Null, leg_used |-> Null,
     technique |-> Null, target_zone |-> "trunk", scoring_value |-> Null,
     penalty |-> Null, notes |-> ""]

\* lines 881 and 900: the panel of the active fighter always carries a technique,
\* the stored one or the event's; of the other fighter's panels, those with no
\* technique picked
PagePanels(event, color) ==
    {p \in Panels(color) \cup {RolePanel(color)} :
        IF Fighter(event) = color THEN Truthy(p["technique"]) ELSE p["technique"] = Null}

\* lines 731-735: the corrections of the dismiss button
DismissCorrections(event) ==
    [technique |-> "neutral_stance", fighter_color |-> Fighter(event),
     notes |-> "Dismissed as false positive"]

\* the "X" button of page_annotate (lines 727-741)
dismiss(event, annotated_by, hex, now) ==
    /\ ~LoadFails(Source(fs))
    /\ LET r == AddResult(load_annotations(Source(fs)), event, DismissCorrections(event),
                          annotated_by, hex, now)
       IN  /\ Len(Annotations(r.data)) <= MaxAnnotations
           /\ fs' = save_annotations(fs, r.data)
           /\ last' = Call("dismiss", EventStart(event), EventEnd(event), Fighter(event),
                           r.created, r.id, <<>>)
    /\ UNCHANGED sess

Dismiss ==
    \E event \in PageEvents, by \in Annotators, hex \in OneHex, now \in Times :
        dismiss(event, by, hex, now)

\* CONFIRM BOTH on the event shown, with the panels the page can hold for it
ConfirmEvent ==
    \E event \in PageEvents :
        \E red_data \in PagePanels(event, "red"), blue_data \in PagePanels(event, "blue"),
           by \in Annotators, hex \in OneHex, now \in Times :
            confirm_both(event, red_data, blue_data, by, hex, now)

\* the "Delete" button of page_annotate (lines 1065-1069)
DeleteEvent ==
    \E event \in PageEvents :
        delete_annotation(event["start_frame"], event["end_frame"], Fighter(event))

NextAnnotate == ConfirmEvent \/ Dismiss \/ DeleteEvent

\* the buttons of page_annotate, on any event of the video
SpecAnnotate == Init /\ [][NextAnnotate]_vars

InitProgress ==
    /\ \E o \in OtherVideos :
          fs = [path |-> NoFile, bak |-> NoFile, tmp |-> NoFile, repo |-> NoFile,
                matches |-> NoFile, other |-> o.file,
                techniques |-> [v \in VideoStems |->
                                   IF v = VIDEO THEN Cardinality(Events) ELSE o.events]]
    /\ last = NoCall
    /\ sess = [s \in Sessions |-> Idle]

\* "Open" of page_select for a video of the match "Final"
GroupVideo ==
    \E video_stem \in VideoStems, part \in Parts :
        save_match_group("Final", video_stem, part, "", "")

\* page_progress for the video shown (lines 1121-1132 and 1217-1260)
page_progress(video_stem) ==
    /\ ~LoadFails(fs.matches)
    /\ ~LoadFails(Source(fs))
    /\ LET match_info == get_match_for_video(load_matches(fs.matches), video_stem)
           match_videos == IF match_info = <<>> THEN <<>> ELSE match_info[1].videos
       IN  last' = Call("progress", 0, 0, "", Len(match_videos) > 1, "",
                        IF Len(match_videos) > 1
                        THEN <<combined_stats(fs, match_videos)>> ELSE <<>>)
    /\ UNCHANGED <<fs, sess>>

Progress == \E video_stem \in VideoStems : page_progress(video_stem)

NextProgress == AddFrom(PlainCorrections, OneHex) \/ GroupVideo \/ Progress

\* the progress page of a match of two videos, one of them annotated in earlier
\* sessions
SpecProgress == InitProgress /\ [][NextProgress]_vars

(***************************************************************************)
(* The handlers one file operation at a time, for sessions that interleave *)
(* and for a process that stops in the middle of save_annotations.  A      *)
(* handler's own computation between two file operations is taken with the *)
(* file operation before it.                                               *)
(***************************************************************************)
Failed(call) == [call EXCEPT !.op = "error", !.ok = FALSE, !.id = ""]

\* the session back in no handler, with what the handler returned
Returned(s, call) == [Idle EXCEPT !.call = call, !.calls = sess[s].calls]

\* the session in save_annotations, about to make the backup
Saving(s, data, call) ==
    [pc |-> "backup", data |-> data, off |-> 0, fd |-> "closed", call |-> call,
     before |-> Source(fs), calls |-> sess[s].calls + 1]

\* lines 161-221: load, and build the data to save
StartAdd(s, event, corrections, annotated_by, hex, now) ==
    /\ sess[s].pc = "idle"
    /\ sess[s].calls < MaxCalls
    /\ IF LoadFails(Source(fs))
       THEN \* json.load raises
            /\ sess' = [sess EXCEPT ![s] =
                   [Returned(s, Failed(NoCall)) EXCEPT !.calls = @ + 1]]
            /\ last' = Failed(NoCall)
       ELSE LET r == AddResult(load_annotations(Source(fs)), event, corrections,
                               annotated_by, hex, now)
            IN  /\ Len(Annotations(r.data)) <= MaxAnnotations
                /\ sess' = [sess EXCEPT ![s] =
                       Saving(s, r.data,
                              Call("add", EventStart(event), EventEnd(event),
                                   FighterColor(event, corrections), r.created,
                                   r.id, <<>>))]
                /\ last' = last
    /\ UNCHANGED fs

\* lines 229-244 up to the save
StartDelete(s, start_frame, end_frame, fighter_color) ==
    /\ sess[s].pc = "idle"
    /\ sess[s].calls < MaxCalls
    /\ ~LoadFails(Source(fs))
    /\ LET r == DeleteResult(load_annotations(Source(fs)), start_frame, end_frame,
                             fighter_color)
           c == Call("delete", start_frame, end_frame, fighter_color, r.removed,
                     "", <<>>)
       IN  IF r.removed
           THEN /\ sess' = [sess EXCEPT ![s] = Saving(s, r.data, c)]
                /\ last' = last
           ELSE /\ sess' = [sess EXCEPT ![s] = [Returned(s, c) EXCEPT !.calls = @ + 1]]
                /\ last' = c
    /\ UNCHANGED fs

\* lines 133-139: the rolling backup and the metadata
StepBackup(s) ==
    /\ sess[s].pc = "backup"
    /\ fs' = Backup(fs)
    /\ sess' = [sess EXCEPT ![s].pc = "open", ![s].data = WithCount(sess[s].data)]
    /\ UNCHANGED last

\* line 143: open(tmp, "w"); a file object another session holds on the same
\* file sees it truncated
StepOpen(s) ==
    /\ sess[s].pc = "open"
    /\ fs' = OpenTmp(fs)
    /\ sess' = [sess EXCEPT ![s].pc = "write", ![s].fd = "tmp", ![s].off = 0]
    /\ UNCHANGED last

\* line 144: one write of json.dump, to the file the file object was opened on,
\* whatever its name is by now; the last one closes the file
StepWrite(s) ==
    /\ sess[s].pc = "write"
    /\ fs' = IF sess[s].fd = "tmp"
             THEN [fs EXCEPT !.tmp = WriteAt(fs.tmp, sess[s].off, sess[s].data)]
             ELSE IF sess[s].fd = "path"
             THEN [fs EXCEPT !.path = WriteAt(fs.path, sess[s].off, sess[s].data)]
             ELSE fs
    /\ sess' = [sess EXCEPT ![s] =
           IF sess[s].off + 1 >= NChunks
           THEN [@ EXCEPT !.pc = "move", !.off = 0, !.fd = "closed"]
           ELSE [@ EXCEPT !.off = @ + 1]]
    /\ UNCHANGED last

\* the file a file object is on after another session's shutil.move(tmp, path)
Renamed(fd) == IF fd = "tmp" THEN "path" ELSE IF fd = "path" THEN "orphan" ELSE fd

\* line 145 and the handler's return; shutil.move raises when tmp is gone
StepMove(s) ==
    /\ sess[s].pc = "move"
    /\ IF fs.tmp.exists
       THEN /\ fs' = Move(fs)
            /\ sess' = [t \in Sessions |->
                   IF t = s THEN Returned(s, sess[s].call)
                   ELSE [sess[t] EXCEPT !.fd = Renamed(@)]]
            /\ last' = sess[s].call
       ELSE /\ fs' = fs
            /\ sess' = [sess EXCEPT ![s] = Returned(s, Failed(sess[s].call))]
            /\ last' = Failed(sess[s].call)

\* the process stops inside save_annotations; what it wrote stays on disk
Crash(s) ==
    /\ sess[s].pc \in {"backup", "open", "write", "move"}
    /\ sess' = [sess EXCEPT ![s].pc = "crashed", ![s].fd = "closed", ![s].off = 0]
    /\ UNCHANGED <<fs, last>>

\* the restarted dashboard loads the video (page_annotate, line 512)
Reload(s) ==
    /\ sess[s].pc = "crashed"
    /\ last' = Call("load", 0, 0, "", ~LoadFails(Source(fs)), "",
                    IF LoadFails(Source(fs)) THEN <<>> ELSE <<load_annotations(Source(fs))>>)
    /\ sess' = [sess EXCEPT ![s] = Returned(s, last')]
    /\ UNCHANGED fs

BeginAdd(s) ==
    \E event \in Events, corrections \in PlainCorrections, by \in Annotators,
       hex \in OneHex, now \in Times :
        StartAdd(s, event, corrections, by, hex, now)

BeginDelete(s) == \E f \in Frames, c \in Colors : StartDelete(s, f[1], f[2], c)

NextCrash ==
    \/ BeginAdd(1)
    \/ BeginDelete(1)
    \/ StepBackup(1)
    \/ StepOpen(1)
    \/ StepWrite(1)
    \/ StepMove(1)
    \/ Crash(1)
    \/ Reload(1)

\* one session whose process may stop at any step of a save
SpecCrash == Init /\ [][NextCrash]_vars

NextConc ==
    \E s \in Sessions :
        \/ BeginAdd(s)
        \/ StepBackup(s)
        \/ StepOpen(s)
        \/ StepWrite(s)
        \/ StepMove(s)

\* two sessions adding annotations to the same video, with no lock
SpecConc == Init /\ [][NextConc]_vars

\* line 143 of a save that starts its temporary file while no other save has
\* that file open or waiting to be moved
StepOpenAlone(s) ==
    /\ \A t \in Sessions \ {s} : sess[t].pc \notin {"write", "move"}
    /\ StepOpen(s)

NextSerial ==
    \E s \in Sessions :
        \/ BeginAdd(s)
        \/ BeginDelete(s)
        \/ StepBackup(s)
        \/ StepOpenAlone(s)
        \/ StepWrite(s)
        \/ StepMove(s)

\* two sessions adding and deleting annotations of the same video, their loads
\* and saves interleaved, no save overlapping another save's use of the
\* temporary file
SpecSerial == Init /\ [][NextSerial]_vars

(***************************************************************************)
(* save_match_group one file operation at a time, for a process that stops *)
(* in the middle of save_matches.                                          *)
(***************************************************************************)
\* the session in save_matches, about to open _matches.json
SavingMatches(s, matches, call) ==
    [pc |-> "open_matches", data |-> [matches |-> matches], off |-> 0, fd |-> "closed",
     call |-> call, before |-> fs.matches, calls |-> sess[s].calls + 1]

\* lines 325-352: load, and build the dict to save
StartSaveGroup(s, match_name, video_stem, part, red_name, blue_name) ==
    /\ sess[s].pc = "idle"
    /\ sess[s].calls < MaxCalls
    /\ IF LoadFails(fs.matches)
       THEN \* json.load raises
            /\ sess' = [sess EXCEPT ![s] =
                   [Returned(s, Failed(NoCall)) EXCEPT !.calls = @ + 1]]
            /\ last' = Failed(NoCall)
       ELSE /\ sess' = [sess EXCEPT ![s] =
                   SavingMatches(s,
                       MatchGroupResult(load_matches(fs.matches), match_name, video_stem,
                                        part, red_name, blue_name),
                       Call("save_match_group", 0, 0, "", TRUE, "",
                            <<[match_name |-> match_name, video_stem |-> video_stem,
                               part |-> part, red_name |-> red_name,
                               blue_name |-> blue_name]>>))]
            /\ last' = last
    /\ UNCHANGED fs

\* line 300: open(MATCHES_FILE, "w")
StepOpenMatches(s) ==
    /\ sess[s].pc = "open_matches"
    /\ fs' = [fs EXCEPT !.matches = Truncated]
    /\ sess' = [sess EXCEPT ![s].pc = "write_matches", ![s].fd = "matches", ![s].off = 0]
    /\ UNCHANGED last

\* line 301: one write of json.dump; the last one closes the file and
\* save_match_group returns
StepWriteMatches(s) ==
    /\ sess[s].pc = "write_matches"
    /\ fs' = [fs EXCEPT !.matches = WriteAt(fs.matches, sess[s].off, sess[s].data)]
    /\ IF sess[s].off + 1 >= NChunks
       THEN /\ sess' = [sess EXCEPT ![s] = Returned(s, sess[s].call)]
            /\ last' = sess[s].call
       ELSE /\ sess' = [sess EXCEPT ![s].off = @ + 1]
            /\ last' = last

\* the process stops inside save_matches; what it wrote stays on disk
CrashMatches(s) ==
    /\ sess[s].pc \in {"open_matches", "write_matches"}
    /\ sess' = [sess EXCEPT ![s].pc = "crashed", ![s].fd = "closed", ![s].off = 0]
    /\ UNCHANGED <<fs, last>>

\* the restarted dashboard loads the match groups (page_select, line 369)
ReloadMatches(s) ==
    /\ sess[s].pc = "crashed"
    /\ last' = Call("load_matches", 0, 0, "", ~LoadFails(fs.matches), "",
                    IF LoadFails(fs.matches) THEN <<>> ELSE <<load_matches(fs.matches)>>)
    /\ sess' = [sess EXCEPT ![s] = Returned(s, last')]
    /\ UNCHANGED fs

BeginSaveGroup(s) ==
    \E match_name \in MatchNames, video_stem \in VideoStems, part \in Parts,
       names \in FighterNames :
        StartSaveGroup(s, match_name, video_stem, part, names.red_name, names.blue_name)

NextMatchCrash ==
    \/ BeginSaveGroup(1)
    \/ StepOpenMatches(1)
    \/ StepWriteMatches(1)
    \/ CrashMatches(1)
    \/ ReloadMatches(1)

\* one session whose process may stop at any step of a save of the match groups
SpecMatchCrash == Init /\ [][NextMatchCrash]_vars

(***************************************************************************)
(* What the claims are stated over.                                        *)
(***************************************************************************)
\* the collection a load of the video returns
Stored == IF LoadFails(Source(fs)) THEN <<>> ELSE Annotations(load_annotations(Source(fs)))

KeyOf(a) == <<a["start_frame"], a["end_frame"], a["fighter_color"]>>

LastKey == <<last.start_frame, last.end_frame, last.fighter_color>>

Positions(annotations, k) == {i \in 1..Len(annotations) : KeyOf(annotations[i]) = k}

Others(annotations, k) == SelectSeq(annotations, LAMBDA a : KeyOf(a) # k)

Ids(annotations) == [i \in 1..Len(annotations) |-> Get(annotations[i], "annotation_id", "")]

\* C1: starting from no annotation file, after any sequence of add_annotation and
\* delete_annotation calls the persisted collection holds at most one record per
\* identity key (start_frame, end_frame, fighter_color).
C1_OnePerKey ==
    \A i, j \in 1..Len(Stored) : KeyOf(Stored[i]) = KeyOf(Stored[j]) => i = j

\* an add_annotation has just rewritten a key that was stored, beside another record
C1_Witness == last.op = "add" /\ ~last.ok /\ Len(Stored) >= 2

\* C2: an add_annotation whose identity key is already stored leaves the number of
\* records unchanged, leaves a record of that key at the same position, keeps and
\* returns the annotation_id that record had, and leaves exactly one record of the
\* key; two calls in a row on one key return the same annotation_id.
C2_UpsertInPlace ==
    [][last'.op = "add" =>
        /\ \A i \in Positions(Stored, LastKey') :
              /\ Len(Stored') = Len(Stored)
              /\ KeyOf(Stored'[i]) = LastKey'
              /\ Stored'[i]["annotation_id"] = Stored[i]["annotation_id"]
              /\ last'.id = Stored[i]["annotation_id"]
              /\ Cardinality(Positions(Stored', LastKey')) = 1
        /\ (last.op = "add" /\ LastKey = LastKey') => last'.id = last.id]_vars

\* the key just rewritten sits first of two records
C2_Witness ==
    /\ last.op = "add" /\ ~last.ok
    /\ Len(Stored) = 2
    /\ Positions(Stored, LastKey) = {1}

\* C3: an add_annotation or delete_annotation addressed to identity key k leaves the
\* stored records of every other key unchanged in content and in relative order.
C3_OtherKeysUntouched ==
    [][last'.op \in {"add", "delete"} =>
        Others(Stored', LastKey') = Others(Stored, LastKey')]_vars

\* a stored key was just rewritten while the other fighter's record of the same
\* frames is stored
C3_Witness ==
    /\ last.op = "add" /\ ~last.ok
    /\ \E i \in 1..Len(Stored) :
          /\ Stored[i]["start_frame"] = last.start_frame
          /\ Stored[i]["end_frame"] = last.end_frame
          /\ Stored[i]["fighter_color"] # last.fighter_color

SavePcs == {"backup", "open", "write", "move"}

CallKey(call) == <<call.start_frame, call.end_frame, call.fighter_color>>

Keys(annotations) == {KeyOf(annotations[i]) : i \in 1..Len(annotations)}

\* C4: if the process stops at any step of save_annotations, a load of the video
\* afterwards succeeds and returns either what was persisted before the save
\* began or the complete new data, never a truncated file.
C4_CrashAtomic ==
    /\ \A s \in Sessions :
          sess[s].pc \in SavePcs \cup {"crashed"} =>
              /\ ~LoadFails(fs.path)
              /\ load_annotations(fs.path) \in
                     {load_annotations(sess[s].before), WithCount(sess[s].data)}
    /\ last.op = "load" => last.ok

\* the process stopped between two writes of the temporary file, while an
\* annotation file existed
C4_Witness ==
    \E s \in Sessions :
        /\ sess[s].pc = "crashed"
        /\ fs.path.exists
        /\ fs.tmp.exists /\ ~IsComplete(fs.tmp) /\ fs.tmp.runs # <<>>

\* C5: with two sessions saving the same video, their steps interleaved, the
\* annotation file is never one a load cannot parse.
C5_NoPartialVisible == ~LoadFails(fs.path)

\* C6: last write wins at the file level: when a session's save completes, the
\* annotation file is exactly the data that session built from its own load, so
\* it holds no record of a key that was neither in that load nor the session's own.
C6_LastWriteWins ==
    [][\A s \in Sessions :
          (sess[s].pc = "move" /\ sess'[s].pc = "idle" /\ fs.tmp = Dump(sess[s].data)) =>
              /\ fs'.path = Dump(sess[s].data)
              /\ Keys(Stored') \subseteq
                     Keys(Annotations(load_annotations(sess[s].before)))
                         \cup {CallKey(sess[s].call)}]_vars

\* both sessions' add_annotation, on different keys, returned an annotation_id and
\* the annotation file holds only the record of the session that returned last
C6_Witness ==
    /\ \A s \in Sessions :
          sess[s].pc = "idle" /\ sess[s].call.op = "add" /\ sess[s].call.id # ""
    /\ CallKey(sess[1].call) # CallKey(sess[2].call)
    /\ IsComplete(fs.path)
    /\ Len(Stored) = 1
    /\ KeyOf(Stored[1]) = LastKey
    /\ Stored[1]["annotation_id"] = last.id
    /\ \E s \in Sessions : CallKey(sess[s].call) \notin Keys(Stored)

\* C7: delete_annotation removes exactly one record when a record of the key is
\* stored and none otherwise, also from a collection restored from an uploaded file.
C7_DeleteRemovesOne ==
    [][last'.op = "delete" =>
        Len(Stored) - Len(Stored') =
            IF Positions(Stored, LastKey') # {} THEN 1 ELSE 0]_vars

\* C8: delete_annotation returns True exactly when a record of the key was stored;
\* when it returns False the annotation file and its .bak are as before; a find
\* of an absent key returns None, and no find changes a file.
C8_NothingHappened ==
    [][/\ last'.op = "delete" =>
            /\ last'.ok <=> Positions(Stored, LastKey') # {}
            /\ ~last'.ok => fs' = fs
       /\ last'.op = "find" =>
            /\ fs' = fs
            /\ Positions(Stored, LastKey') = {} => last'.found = <<>>]_vars

\* a delete of an absent key has returned False while a .bak older than the
\* annotation file exists
C8_Witness ==
    /\ last.op = "delete" /\ ~last.ok
    /\ fs.bak.exists /\ fs.bak # fs.path

\* C9: no two stored records carry the same annotation_id, and a record keeps its
\* annotation_id for as long as its key stays stored.
C9_IdsUniqueAndStable ==
    /\ [](\A i, j \in 1..Len(Stored) : Ids(Stored)[i] = Ids(Stored)[j] => i = j)
    /\ [][\A i \in 1..Len(Stored), j \in 1..Len(Stored') :
             KeyOf(Stored[i]) = KeyOf(Stored'[j]) => Ids(Stored)[i] = Ids(Stored')[j]]_vars

\* two records are stored and one of them has just been rewritten
C9_Witness ==
    /\ last.op = "add" /\ ~last.ok
    /\ Len(Stored) >= 2
    /\ \E i \in 1..Len(Stored) : KeyOf(Stored[i]) = LastKey /\ Stored[i]["annotation_id"] = last.id

\* C10: a complete annotation file carries in num_annotations the length of its
\* annotations collection, whatever the saved data carried in that field.
C10_CountDerived ==
    IsComplete(fs.path) =>
        /\ "num_annotations" \in DOMAIN Parse(fs.path)
        /\ Parse(fs.path)["num_annotations"] = Len(Annotations(Parse(fs.path)))

\* an upload that claimed 7 annotations and holds 2 has just been restored
C10_Witness ==
    /\ last.op = "restore" /\ last.ok
    /\ Len(Stored) = 2
    /\ \E upload \in Uploads : upload.json = "object" /\ Get(upload.doc, "num_annotations", 0) = 7
                                /\ Annotations(upload.doc) = Stored

\* what json.load makes of the text of a complete file
JsonLoad(f) == JsonRoundTrip(f.runs[1].doc)

\* the load after a save returns data, as save_annotations left it
LoadReturns(f, data) ==
    /\ f.exists
    /\ ~LoadFails(f)
    /\ JsonLoad(f) = WithCount(data)
    /\ load_annotations(f) = WithCount(data)

\* C11: when add_annotation, delete_annotation or a restore has saved data, a load
\* of the video with no write in between returns exactly that data, with
\* num_annotations as save_annotations set it.
C11_SaveThenLoad ==
    [][/\ \A upload \in Uploads :
             (upload.json = "object" /\ restore_annotations(upload)) =>
                 LoadReturns(fs'.path, upload.doc)
       /\ \A event \in Events, corrections \in PlainCorrections, by \in Annotators,
             hex \in OneHex, now \in Times :
             add_annotation(event, corrections, by, hex, now) =>
                 LoadReturns(fs'.path,
                             AddResult(load_annotations(Source(fs)), event, corrections,
                                       by, hex, now).data)
       /\ \A f \in Frames, c \in Colors :
             (delete_annotation(f[1], f[2], c) /\ last'.ok) =>
                 LoadReturns(fs'.path,
                             DeleteResult(load_annotations(Source(fs)), f[1], f[2], c).data)]_vars

\* an add_annotation has saved a second record, fields left None included, and
\* the text of the annotation file loads as the two records
C11_Witness ==
    /\ last.op = "add" /\ last.ok
    /\ IsComplete(fs.path)
    /\ Len(Annotations(JsonLoad(fs.path))) = 2
    /\ Annotations(JsonLoad(fs.path))[2]["annotation_id"] = last.id
    /\ Annotations(JsonLoad(fs.path))[2]["attitude"] = Null

\* a handler that has just returned went through a whole save_annotations
SaveCompleted == last.op = "add" \/ (last.op \in {"delete", "restore"} /\ last.ok)

\* C12: when a save completes for a video that had an annotation file, the .bak
\* file holds exactly what the annotation file held just before that save; a save
\* for a video with no annotation file creates no .bak, so no .bak exists without
\* an annotation file.
C12_RollingBackup ==
    /\ [](~fs.path.exists => ~fs.bak.exists)
    /\ [][SaveCompleted' =>
             IF fs.path.exists THEN fs'.bak = fs.path
             ELSE fs'.bak = NoFile]_vars

\* the .bak has been replaced: it holds two records, so it is not the copy the
\* second save of the video made
C12_Witness ==
    /\ SaveCompleted
    /\ IsComplete(fs.bak)
    /\ Len(Annotations(Parse(fs.bak))) = 2
    /\ fs.bak # fs.path

\* C13: a load of a video that has no annotation file, neither in ANNOTATIONS_DIR
\* nor as the repository's copy, succeeds, returns version "1.1", num_annotations 0
\* and an empty annotations list, and creates no file.
C13_LoadOfNothing ==
    [][(last'.op = "load" /\ ~fs.path.exists /\ ~fs.repo.exists) =>
          /\ last'.ok
          /\ Len(last'.found) = 1
          /\ last'.found[1]["version"] = "1.1"
          /\ last'.found[1]["num_annotations"] = 0
          /\ last'.found[1]["annotations"] = <<>>
          /\ fs' = fs
          /\ ~fs'.path.exists]_vars

\* a load of a video with no file at all has returned, after a
\* delete_annotation that found nothing to remove
C13_Witness ==
    /\ last.op = "load" /\ last.ok
    /\ ~fs.path.exists /\ ~fs.repo.exists /\ ~fs.bak.exists /\ ~fs.tmp.exists
    /\ Len(last.found) = 1
    /\ Annotations(last.found[1]) = <<>>

\* the statistics the last call returned
LastStats == last.found[1]

\* C14: the progress_pct that get_annotation_stats returns lies between 0 and 100
\* (0 and 1000 tenths), for every total_events and every collection built by
\* add_annotation, CONFIRM BOTH and delete_annotation.
C14_ProgressInRange ==
    last.op = "stats" => (LastStats.progress_pct >= 0 /\ LastStats.progress_pct <= 1000)

\* the sum of the counts of a by_annotator or by_technique dict
RECURSIVE SumOver(_, _)
SumOver(counts, keys) ==
    IF keys = {} THEN 0
    ELSE LET k == CHOOSE x \in keys : TRUE
         IN  counts[k] + SumOver(counts, keys \ {k})

\* C15: get_annotation_stats is derived from the stored collection alone: annotated
\* is the number of stored records, remaining is max(0, total_events - annotated),
\* the counts of by_annotator and of by_technique each add up to annotated, and no
\* file changes; with total_events 3, one stored record gives 1, 2 and 33.3, and
\* none gives 0, 3 and 0.0.
C15_StatsDerived ==
    [][last'.op = "stats" =>
          LET stats == last'.found[1]
              n == Len(Stored)
          IN  /\ fs' = fs
              /\ stats.annotated = n
              /\ stats.remaining =
                     (IF stats.total_events > n THEN stats.total_events - n ELSE 0)
              /\ SumOver(stats.by_annotator, DOMAIN stats.by_annotator) = n
              /\ SumOver(stats.by_technique, DOMAIN stats.by_technique) = n
              /\ (stats.total_events = 3 /\ n = 1) =>
                     (stats.remaining = 2 /\ stats.progress_pct = 333)
              /\ (stats.total_events = 3 /\ n = 0) =>
                     (stats.remaining = 3 /\ stats.progress_pct = 0)]_vars

\* the red ap_chagi record of an event was stored and then deleted (it is the
\* one record of the .bak), and the statistics for 3 events are 0, 3 and 0.0
C15_Witness ==
    /\ last.op = "stats"
    /\ LastStats.total_events = 3 /\ LastStats.annotated = 0
    /\ LastStats.remaining = 3 /\ LastStats.progress_pct = 0
    /\ IsComplete(fs.path) /\ Stored = <<>>
    /\ IsComplete(fs.bak)
    /\ Len(Annotations(Parse(fs.bak))) = 1
    /\ Annotations(Parse(fs.bak))[1]["fighter_color"] = "red"
    /\ Annotations(Parse(fs.bak))[1]["technique"] = "ap_chagi"

\* the dict load_matches returns
Registry == IF LoadFails(fs.matches) THEN <<>> ELSE load_matches(fs.matches)

VideosOf(matches, i) == matches[i]["mdata"]["videos"]

\* the arguments of the save_match_group call that has just returned
LastGroup == last.found[1]

\* C16: after any sequence of save_match_group calls from no _matches.json, the
\* videos list of every group is in ascending order of part and holds no
\* video_stem twice.
C16_SortedNoDuplicate ==
    \A g \in 1..Len(Registry) :
        \A i, j \in 1..Len(VideosOf(Registry, g)) :
            i < j => /\ VideosOf(Registry, g)[i]["part"] <= VideosOf(Registry, g)[j]["part"]
                     /\ VideosOf(Registry, g)[i]["video_stem"] #
                            VideosOf(Registry, g)[j]["video_stem"]

\* a call has just set the part of match01 to 2 in a group of two videos, and the
\* group lists it behind match02
C16_Witness ==
    /\ last.op = "save_match_group"
    /\ \E g \in 1..Len(Registry) :
          /\ Registry[g]["match_name"] = LastGroup.match_name
          /\ Len(VideosOf(Registry, g)) = 2
          /\ VideosOf(Registry, g)[1]["video_stem"] = "match02"
          /\ VideosOf(Registry, g)[2] = [video_stem |-> "match01", part |-> 2]
          /\ LastGroup.video_stem = "match01"

\* C17: after any sequence of save_match_group calls, no video_stem is in the
\* videos list of more than one match group.
C17_OneGroupPerVideo ==
    \A video_stem \in VideoStems : Cardinality(GroupsOf(Registry, video_stem)) <= 1

\* what the get_match_for_video that has just returned was asked and gave
LastFound == last.found[1]

\* C18: get_match_for_video returns None exactly when no group lists the video,
\* and otherwise the name of a group that lists it, the part of its entry there
\* and that group's fighter names; right after save_match_group(m, v, p, ...) it
\* returns match_name m and video_part p for v.
C18_FindGroup ==
    [][/\ last'.op = "get_match_for_video" =>
             LET v == LastFound'.video_stem
                 r == LastFound'.match
             IN  /\ r = <<>> <=> GroupsOf(Registry, v) = {}
                 /\ r # <<>> =>
                        \E g \in GroupsOf(Registry, v) :
                            /\ r[1].match_name = Registry[g]["match_name"]
                            /\ r[1].video_part =
                                   VideosOf(Registry, g)[VideoIdx(VideosOf(Registry, g), v)]["part"]
                            /\ r[1].red_name = Registry[g]["mdata"]["red_name"]
                            /\ r[1].blue_name = Registry[g]["mdata"]["blue_name"]
       /\ last'.op = "save_match_group" =>
             LET r == get_match_for_video(Registry', LastGroup'.video_stem)
             IN  /\ r # <<>>
                 /\ r[1].match_name = LastGroup'.match_name
                 /\ r[1].video_part = LastGroup'.part]_vars

\* the stored entry of a match name, in a one-element sequence
GroupNamed(matches, match_name) ==
    IF MatchIdx(matches, match_name) = 0 THEN <<>>
    ELSE <<matches[MatchIdx(matches, match_name)]["mdata"]>>

\* C19: a save_match_group call with an empty red_name (blue_name) for a match name
\* that is stored leaves the stored red_name (blue_name) as it was; a stored name
\* that is not empty is never replaced by an empty one; and the entry of every
\* other match name stays as it was, at its place.
C19_NamesKept ==
    [][last'.op = "save_match_group" =>
          LET m == LastGroup'.match_name
              old == GroupNamed(Registry, m)
              new == GroupNamed(Registry', m)
          IN  /\ new # <<>>
              /\ old # <<>> =>
                     /\ LastGroup'.red_name = "" => new[1]["red_name"] = old[1]["red_name"]
                     /\ LastGroup'.blue_name = "" => new[1]["blue_name"] = old[1]["blue_name"]
                     /\ old[1]["red_name"] # "" => new[1]["red_name"] # ""
                     /\ old[1]["blue_name"] # "" => new[1]["blue_name"] # ""
              /\ \A i \in 1..Len(Registry) :
                     Registry[i]["match_name"] # m => Registry'[i] = Registry[i]]_vars

\* a call with both names empty has just returned for a match that keeps the
\* names stored before, beside another match
C19_Witness ==
    /\ last.op = "save_match_group"
    /\ LastGroup.red_name = "" /\ LastGroup.blue_name = ""
    /\ Len(Registry) = 2
    /\ GroupNamed(Registry, LastGroup.match_name) # <<>>
    /\ GroupNamed(Registry, LastGroup.match_name)[1]["red_name"] = "Park"
    /\ GroupNamed(Registry, LastGroup.match_name)[1]["blue_name"] = "Lee"

\* the panel that has just been rendered
LastPanel == last.found[1]

LinkedDimensions == {"attitude", "role", "scoring_value"}

\* what the panel shows for a dimension with nothing known of the other fighter
OwnDefault(dim) == _match_option(LastPanel.src[dim], DIMENSION_OPTIONS[dim])

\* the default of a dimension was derived from the other fighter
Suggested(dim) == LastPanel.defaults[dim] # OwnDefault(dim)

\* C20: a default derived from the other fighter (role mirror, attitude mirror,
\* penalty-to-score) is applied to a panel only when the fighter has no stored
\* value for the dimension and is not the active fighter of the event.
C20_SuggestionsOnlyReactive ==
    last.op = "render" =>
        \A dim \in LinkedDimensions :
            Suggested(dim) =>
                /\ LastPanel.stored[dim] = Null
                /\ ~last.ok

\* C20 as amended: a default derived from the other fighter is applied only when
\* the panel's source (the fighter's stored record, or the event for the active
\* fighter with none) gives no value that matches an option of the dimension;
\* the role and attitude mirrors only for a fighter who is not the active one,
\* the penalty-to-score default for either fighter.
C20_SuggestionsWhenNoDefault ==
    last.op = "render" =>
        \A dim \in LinkedDimensions :
            Suggested(dim) =>
                /\ OwnDefault(dim) = Null
                /\ dim \in {"attitude", "role"} => ~last.ok

\* the panel of the active fighter, with no stored scoring value, shows "2" as
\* the default value after the other fighter's "Fall 10 sec (-2)", and no
\* mirrored role or attitude
C20_Witness ==
    /\ last.op = "render" /\ last.ok
    /\ LastPanel.stored["scoring_value"] = Null
    /\ LastPanel.other_pen = <<"Fall", "10", "sec", "(-2)">>
    /\ LastPanel.defaults["scoring_value"] = "2"
    /\ ~Suggested("role") /\ ~Suggested("attitude")
    /\ Stored # <<>>

\* the event the last button was pressed on: its identity key
LastEvent == [start_frame |-> last.start_frame, end_frame |-> last.end_frame,
              fighter_color |-> last.fighter_color]

\* C21: after CONFIRM BOTH or dismiss on an event, whatever its fighter_color, a
\* find of the event's key returns a record and the event is counted as done;
\* after the delete button on it the find returns None.
C21_AnnotatedAfterAction ==
    /\ last.op \in {"confirm", "dismiss"} =>
           /\ get_annotation_for_event(load_annotations(Source(fs)), last.start_frame,
                                       last.end_frame, last.fighter_color) # <<>>
           /\ _is_annotated(load_annotations(Source(fs)), LastEvent)
    /\ last.op = "delete" =>
           get_annotation_for_event(load_annotations(Source(fs)), last.start_frame,
                                    last.end_frame, last.fighter_color) = <<>>

\* an uploaded file that is a JSON object with an annotations list
HasShape(upload) == upload.json = "object" /\ "annotations" \in DOMAIN upload.doc

\* C22: a restore of an uploaded file that is not JSON, is not a JSON object or
\* is an object with no annotations list is reported as a failure and leaves the
\* annotation file and its .bak as they were.
C22_BadUploadRejected ==
    [][\A upload \in Uploads :
          (restore_annotations(upload) /\ ~HasShape(upload)) =>
              /\ ~last'.ok
              /\ fs'.path = fs.path
              /\ fs'.bak = fs.bak]_vars

\* the stored records of an identity key
RecordsOf(annotations, start_frame, end_frame, fighter_color) ==
    {annotations[i] : i \in Positions(annotations, <<start_frame, end_frame, fighter_color>>)}

\* C23: a record stored by CONFIRM BOTH from a panel with no technique (None), for
\* an event that has no technique, has technique "neutral_stance".
C23_TechniqueDefault ==
    [][\A event \in PageEvents :
          \A red_data \in PagePanels(event, "red"), blue_data \in PagePanels(event, "blue"),
             by \in Annotators, hex \in OneHex, now \in Times :
              (confirm_both(event, red_data, blue_data, by, hex, now)
                   /\ "technique" \notin DOMAIN event) =>
                  \A fdata \in {red_data, blue_data} :
                      (fdata["technique"] = Null /\ Truthy(fdata["role"])) =>
                          \A a \in RecordsOf(Stored', EventStart(event), EventEnd(event),
                                             fdata["fighter_color"]) :
                              a["technique"] = "neutral_stance"]_vars

\* C24: the role suggested to a fighter from the other fighter's role is Contre
\* Attack for Attack, Attack for Contre Attack and Attack for Defence; a suggested
\* role is never Defence; and with no role chosen for the other fighter nothing
\* is suggested.
C24_RoleMirror ==
    last.op = "render" =>
        LET other_role == LastPanel.other_role
            role_default == LastPanel.defaults["role"]
        IN  /\ (~last.ok /\ OwnDefault("role") = Null) =>
                   role_default =
                       (CASE other_role = "Attack" -> "Contre Attack"
                          [] other_role = "Contre Attack" -> "Attack"
                          [] other_role = "Defence" -> "Attack"
                          [] OTHER -> Null)
            /\ Suggested("role") => role_default # "Defence"
            /\ other_role = Null => ~Suggested("role")

\* the panel of the fighter who is not the active one, with a stored record that
\* has no role, shows Attack after the other fighter's Defence
C24_Witness ==
    /\ last.op = "render" /\ ~last.ok
    /\ Stored # <<>>
    /\ LastPanel.stored["role"] = Null
    /\ LastPanel.other_role = "Defence"
    /\ LastPanel.defaults["role"] = "Attack"

\* C25: of the penalty options, the eight that carry (-1) give the opponent 1
\* point, the three that carry (-2) give 2, "None", no penalty and "Apal min foug"
\* give 0; when the other fighter's penalty gives points and the fighter has no
\* stored scoring_value, the default value of the panel is the points as a
\* string, "2" for "Fall 10 sec (-2)".
C25_PenaltyPoints ==
    /\ \A i \in 1..Len(PENALTY_OPTIONS) :
          _penalty_pts(PENALTY_OPTIONS[i]) =
              (IF i \in 2..9 THEN 1 ELSE IF i \in 10..12 THEN 2 ELSE 0)
    /\ _penalty_pts(<<>>) = 0
    /\ last.op = "render" =>
          /\ (_penalty_pts(LastPanel.other_pen) > 0 /\ LastPanel.stored["scoring_value"] = Null) =>
                 LastPanel.defaults["scoring_value"] =
                     ToString(_penalty_pts(LastPanel.other_pen))
          /\ (LastPanel.other_pen = <<"Fall", "10", "sec", "(-2)">>
                  /\ LastPanel.stored["scoring_value"] = Null) =>
                 LastPanel.defaults["scoring_value"] = "2"
          /\ _penalty_pts(LastPanel.other_pen) = 0 => ~Suggested("scoring_value")

\* the panel of the fighter who is not the active one, whose stored record has no
\* scoring value, shows "1" after the other fighter's "Grab (-1)"
C25_Witness ==
    /\ last.op = "render" /\ ~last.ok
    /\ Stored # <<>>
    /\ \E i \in 1..Len(Stored) :
          /\ KeyOf(Stored[i]) = LastKey
          /\ Stored[i]["scoring_value"] = Null
    /\ LastPanel.other_pen = <<"Grab", "(-1)">>
    /\ LastPanel.defaults["scoring_value"] = "1"

\* what "Full Match (All Parts)" has just shown
LastCombined == last.found[1]

\* the number of records a load of a video returns
StoredOf(video_stem) ==
    Len(Annotations(load_annotations(AnnotationFile(fs, video_stem))))

RECURSIVE SumSeq(_)
SumSeq(seq) == IF seq = <<>> THEN 0 ELSE Head(seq) + SumSeq(Tail(seq))

C27_MatchesRoundTrip ==
    [][last'.op = "save_match_group" =>
          LET saved == MatchGroupResult(Registry, LastGroup'.match_name,
                                        LastGroup'.video_stem, LastGroup'.part,
                                        LastGroup'.red_name, LastGroup'.blue_name)
          IN  /\ ~LoadFails(fs'.matches)
              /\ MatchesRoundTrip(saved) = saved
              /\ load_matches(fs'.matches) = saved]_vars

\* two match groups have been saved, one of them with two videos and both
\* fighter names, and the text of _matches.json loads as that collection
C27_Witness ==
    /\ last.op = "save_match_group"
    /\ Len(Registry) = 2
    /\ \E g \in 1..2 :
          /\ Len(VideosOf(Registry, g)) = 2
          /\ Registry[g]["mdata"]["red_name"] = "Kim"
          /\ Registry[g]["mdata"]["blue_name"] = "Lee"
    /\ MatchesRoundTrip(Registry) = Registry
    /\ load_matches(fs.matches) = Registry

\* C28: if the process stops while save_matches writes _matches.json, a load of
\* the match groups afterwards succeeds and returns either the complete
\* collection stored before the save or the complete new one.
C28_RegistryCrashAtomic ==
    /\ \A s \in Sessions :
          sess[s].pc = "crashed" =>
              /\ ~LoadFails(fs.matches)
              /\ load_matches(fs.matches) \in
                     {load_matches(sess[s].before), sess[s].data["matches"]}
    /\ last.op = "load_matches" => last.ok

\* C29: with two sessions interleaving the loads and saves of their
\* add_annotation and delete_annotation calls, no save overlapping another save's
\* writing of the temporary file, the annotation file can always be loaded and
\* holds at most one record per identity key.
C29_OnePerKeyInterleaved ==
    /\ ~LoadFails(fs.path)
    /\ \A k \in Keys(Stored) : Cardinality(Positions(Stored, k)) = 1

\* session 2 deleted a record and returned True; session 1, which had loaded the
\* file before that delete was saved, then saved its add of another key: both
\* records are stored, each once
C29_Witness ==
    /\ \A s \in Sessions : sess[s].pc = "idle"
    /\ sess[1].call.op = "add" /\ sess[1].call.ok
    /\ sess[2].call.op = "delete" /\ sess[2].call.ok
    /\ last = sess[1].call
    /\ Len(Stored) = 2
    /\ CallKey(sess[2].call) \in Keys(Stored)
    /\ CallKey(sess[1].call) \in Keys(Stored)

\* the seven dimensions of a record that the panel fills in
Dimensions ==
    {"attitude", "guard_stance", "role", "action_type", "leg_used", "scoring_value",
     "penalty"}

\* the stored record of a key that is stored once
RecordOf(annotations, k) == annotations[CHOOSE i \in Positions(annotations, k) : TRUE]

\* C30: an upsert on a stored key replaces the record: but for annotation_id
\* (kept) and annotator, the record is the one the same call would create in an
\* empty collection, so a dimension the corrections leave out is stored as None
\* whatever the record held before, as when an already confirmed event is
\* dismissed; annotator is "verified" on an update (by dismiss or by CONFIRM
\* BOTH) and "manual" on a creation.
C30_FullReplacement ==
    [][LET before == Stored
           after == Stored'
       IN  /\ \A k \in Keys(after) :
                 IF Positions(before, k) = {}
                 THEN RecordOf(after, k)["annotator"] = "manual"
                 ELSE RecordOf(after, k) # RecordOf(before, k) =>
                          /\ RecordOf(after, k)["annotator"] = "verified"
                          /\ RecordOf(after, k)["annotation_id"] =
                                 RecordOf(before, k)["annotation_id"]
           /\ \A event \in PageEvents, by \in Annotators, hex \in OneHex, now \in Times :
                 (last'.op = "dismiss" /\ LastKey' = CallKey(event)) =>
                     LET k == <<EventStart(event), EventEnd(event), Fighter(event)>>
                         new == RecordOf(after, k)
                         fresh == Annotations(AddResult(EmptyData, event,
                                                        DismissCorrections(event),
                                                        by, hex, now).data)[1]
                     IN  /\ Cardinality(Positions(after, k)) = 1
                         /\ DOMAIN new = DOMAIN fresh
                         /\ \A f \in DOMAIN new \ {"annotation_id", "annotator"} :
                                new[f] = fresh[f]
                         /\ \A dim \in Dimensions : new[dim] = Null]_vars

\* an event confirmed with attitude Forward and role Attack (the record the .bak
\* holds) has just been dismissed: its record has kept its annotation_id, is
\* "verified" and has None for both
C30_Witness ==
    /\ last.op = "dismiss" /\ ~last.ok
    /\ IsComplete(fs.bak)
    /\ Positions(Annotations(Parse(fs.bak)), LastKey) # {}
    /\ RecordOf(Annotations(Parse(fs.bak)), LastKey)["attitude"] = "Forward"
    /\ RecordOf(Annotations(Parse(fs.bak)), LastKey)["role"] = "Attack"
    /\ RecordOf(Annotations(Parse(fs.bak)), LastKey)["annotation_id"] = last.id
    /\ Positions(Stored, LastKey) # {}
    /\ RecordOf(Stored, LastKey)["attitude"] = Null
    /\ RecordOf(Stored, LastKey)["role"] = Null
    /\ RecordOf(Stored, LastKey)["annotator"] = "verified"
    /\ RecordOf(Stored, LastKey)["annotation_id"] = last.id

====
